---- MODULE Spec2Model ----
(***************************************************************************)
(* The polling/notification loop of homework.py as a state machine.        *)
(*                                                                         *)
(* Encodings.  Python values are records carrying their type: an optional  *)
(* integer is [t, v], an optional string is [t, s].  An exception is       *)
(* [kind, msg, cause]: its class name, str(exc) as a sequence of text      *)
(* pieces, and the class of the exception it was raised from.  A text      *)
(* built by an f-string is the sequence of its literal and interpolated    *)
(* pieces, so "contains" is membership of a piece.  The source's string    *)
(* literals are Russian; they are rendered here in ASCII, one distinct     *)
(* ASCII text per distinct source literal.                                 *)
(***************************************************************************)
EXTENDS Integers, Sequences, FiniteSets, TLC

VARIABLES
    pc,                 \* position of main(): start, polling, validating,
                        \* extracting, notifying, sleeping, exited, crashed
    tokens,             \* PRACTICUM_TOKEN, TELEGRAM_TOKEN, TELEGRAM_CHAT_ID
    clock,              \* time.time()
    cycle,              \* number of completed loop iterations
    current_timestamp,  \* main(): current_timestamp
    last_message,       \* main(): last_message
    response,           \* main(): response
    homeworks,          \* main(): homeworks
    message,            \* main(): message
    exc,                \* exception caught by main() in this iteration
    exit_status,        \* status the process exited with (-1: running)
    logged_missing,     \* names in the logger.critical line of main()
    last_delivered,     \* text of the last message bot.send_message accepted
    cyc,                \* what this iteration did so far (requests, sends)
    prev,               \* what the previous iteration did
    run_sends,          \* send_message calls in the current run of
                        \* consecutive non-200 iterations (-1: no such run)
    last_diag,          \* the last diagnostic send_message was called with
    last_cand           \* the message of the last earlier iteration that
                        \* constructed one

vars == <<pc, tokens, clock, cycle, current_timestamp, last_message, response,
          homeworks, message, exc, exit_status, logged_missing,
          last_delivered, cyc, prev, run_sends, last_diag, last_cand>>

---------------------------------------------------------------------------
\* Bounds of the model.

\* Loop iterations explored before the model stops sleeping.
MaxCycles == 2

---------------------------------------------------------------------------
\* Python values.

PyNone == [t |-> "NoneType", v |-> 0]
PyInt(n) == [t |-> "int", v |-> n]
\* bool(x) of an optional integer
Truthy(x) == x.t = "int" /\ x.v # 0

PyNoneStr == [t |-> "NoneType", s |-> ""]
PyStr(x) == [t |-> "str", s |-> x]
\* bool(x) of an optional string
TruthyStr(x) == x.t = "str" /\ x.s # ""

Digits == <<"0", "1", "2", "3", "4", "5", "6", "7", "8", "9">>

RECURSIVE IntToStr(_)
\* str(n) of a non-negative integer, as an f-string interpolates it
IntToStr(n) ==
    IF n < 10 THEN Digits[n + 1]
    ELSE IntToStr(n \div 10) \o Digits[(n % 10) + 1]

---------------------------------------------------------------------------
\* Exceptions.

NoExc == [kind |-> "None", msg |-> <<>>, cause |-> "None"]
Exc(kind, msg, cause) == [kind |-> kind, msg |-> msg, cause |-> cause]

\* The direct base class of each exception class the program meets: the
\* classes of errors.py, and the builtin and library classes they meet.
\* SendMessageError is imported by homework.py and not defined in errors.py;
\* it is given no base here, so it is caught only by a clause naming it.
Parent ==
    [k \in {"BaseError", "UnexpectedStatusCodeError",
            "ExpectedKeysNotFoundError", "UnexpectedStatusError",
            "NewStatusNotFoundError", "TokenNotFoundError",
            "ConnectionError", "OSError", "TypeError", "AttributeError",
            "KeyError", "IndexError", "LookupError", "Timeout",
            "JSONDecodeError", "ValueError", "NetworkError", "Unauthorized",
            "TelegramError"} |->
        CASE k = "BaseError" -> "Exception"
          [] k \in {"UnexpectedStatusCodeError", "ExpectedKeysNotFoundError",
                    "UnexpectedStatusError", "NewStatusNotFoundError",
                    "TokenNotFoundError"} -> "BaseError"
          [] k = "ConnectionError" -> "OSError"
          [] k = "Timeout" -> "OSError"
          [] k \in {"KeyError", "IndexError"} -> "LookupError"
          [] k = "JSONDecodeError" -> "ValueError"
          [] k \in {"NetworkError", "Unauthorized"} -> "TelegramError"
          [] OTHER -> "Exception"]

RECURSIVE IsSubclass(_, _)
\* issubclass(kind, class): what "except class" catches
IsSubclass(kind, class) ==
    \/ kind = class
    \/ /\ kind \in DOMAIN Parent
       /\ IsSubclass(Parent[kind], class)

---------------------------------------------------------------------------
\* Program constants.

RETRY_TIME == 600
ENDPOINT == "https://practicum.yandex.ru/api/user_api/homework_statuses/"
TokenNames == {"PRACTICUM_TOKEN", "TELEGRAM_TOKEN", "TELEGRAM_CHAT_ID"}

\* The status catalog: status code -> verdict text.
HOMEWORK_STATUSES ==
    [s \in {"approved", "reviewing", "rejected"} |->
        CASE s = "approved" -> "Work checked: the reviewer liked everything. Hooray!"
          [] s = "reviewing" -> "Work taken for review by the reviewer."
          [] s = "rejected" -> "Work checked: the reviewer has remarks."]

---------------------------------------------------------------------------
\* Inputs: the environment, the HTTP exchange, the messaging client.

\* os.getenv of one variable: unset, set and empty, set.
TokenValues == {PyNoneStr, PyStr(""), PyStr("tok")}

\* int(time.time()) when the process starts.
StartTimes == {1500}

\* One element of the "homeworks" list: a mapping with any of its two keys,
\* or a JSON value that is no mapping.
HomeworkRecord(keys, name, status) ==
    [t |-> "dict", keys |-> keys, homework_name |-> name, status |-> status]
NonDictRecord == [t |-> "str", keys |-> {}, homework_name |-> "", status |-> ""]
Records ==
    {HomeworkRecord(k, IF "homework_name" \in k THEN n ELSE "",
                       IF "status" \in k THEN s ELSE "") :
        k \in SUBSET {"homework_name", "status"},
        n \in {"", "hw1"},
        s \in {"approved", "reviewing", "rejected", "in_review"}}
    \cup {NonDictRecord}
\* Records that follow the first one of a list.
TailRecords ==
    {HomeworkRecord({"homework_name", "status"}, "hw2", "rejected")}

\* The value under "homeworks": a list, or a mapping where a list is expected;
\* NoHomeworks is what response.get gives when the key is absent.
HwList(elems) == [t |-> "list", elems |-> elems]
NoHomeworks == [t |-> "NoneType", elems |-> <<>>]
HomeworksValues ==
    {HwList(<<>>)} \cup {HwList(<<r>>) : r \in Records}
    \cup {HwList(<<r, q>>) : r \in Records, q \in TailRecords}
    \cup {[t |-> "dict", elems |-> <<>>]}

\* The value under "current_date".
Cursors == {PyInt(0), PyInt(1000)}

\* A decoded JSON body: a mapping with any of the two keys, or no mapping.
Envelope(keys, hw, cur) ==
    [t |-> "dict", keys |-> keys, homeworks |-> hw, current_date |-> cur]
NonDictBody ==
    [t |-> "list", keys |-> {}, homeworks |-> NoHomeworks, current_date |-> PyNone]
Bodies ==
    {Envelope(k, IF "homeworks" \in k THEN h ELSE NoHomeworks,
                 IF "current_date" \in k THEN c ELSE PyNone) :
        k \in SUBSET {"homeworks", "current_date"},
        h \in HomeworksValues, c \in Cursors}
    \cup {NonDictBody}

\* What requests.get and response.json() do in one call of get_api_answer:
\* requests.get raises, or answers with a status code and a body that
\* json() decodes or rejects.
Http(err, code, parsable, body) ==
    [err |-> err, status_code |-> code, parsable |-> parsable, body |-> body]
HttpOutcomes ==
    {Http("Timeout", 0, FALSE, NonDictBody)}
    \cup {Http("None", c, FALSE, NonDictBody) : c \in {404, 500}}
    \cup {Http("None", 200, FALSE, NonDictBody)}
    \cup {Http("None", 200, TRUE, b) : b \in Bodies}

\* What bot.send_message does: returns, or raises one of the library's errors.
BotOutcomes == {"None", "NetworkError", "Unauthorized"}

---------------------------------------------------------------------------
\* The functions of homework.py.  Each returns [raised, value]: the exception
\* that leaves the call (NoExc when it returns) and the value returned.

Return(v) == [raised |-> NoExc, value |-> v]
Raise(e, v) == [raised |-> e, value |-> v]

\* dict.get of the two mappings
ResponseGet(r, key) ==
    IF key = "homeworks" THEN (IF key \in r.keys THEN r.homeworks ELSE NoHomeworks)
    ELSE (IF key \in r.keys THEN r.current_date ELSE PyNone)
HomeworkGet(h, key) ==
    IF key \notin h.keys THEN PyNoneStr
    ELSE IF key = "homework_name" THEN PyStr(h.homework_name)
    ELSE PyStr(h.status)

\* send_message without its except clause: the error of bot.send_message
\* leaves the function as it is
send_message_unwrapped(msg, outcome) ==
    IF outcome = "None" THEN Return(msg)
    ELSE Raise(Exc(outcome, <<outcome>>, "None"), msg)

send_message(msg, outcome) ==
    IF outcome = "None" THEN Return(msg)
    ELSE IF IsSubclass(outcome, "Exception")
         THEN Raise(Exc("SendMessageError", <<"Could not send the message.">>,
                        outcome), msg)
         ELSE Raise(Exc(outcome, <<outcome>>, "None"), msg)

\* The try block of get_api_answer: [raised, value, from_date].
get_api_answer_try(timestamp, http) ==
    IF http.err # "None"
    THEN Raise(Exc(http.err, <<http.err>>, "None"), NonDictBody)
    ELSE IF http.status_code # 200
    THEN Raise(Exc("UnexpectedStatusCodeError",
                   <<"Could not connect to the server.",
                     "Response code: ", IntToStr(http.status_code),
                     "Request URL: ", ENDPOINT,
                     "headers: ", "Authorization: OAuth PRACTICUM_TOKEN",
                     "params: ", "from_date", IntToStr(timestamp)>>,
                   "None"), NonDictBody)
    ELSE IF ~http.parsable
    THEN Raise(Exc("JSONDecodeError", <<"JSONDecodeError">>, "None"), NonDictBody)
    ELSE Return(http.body)

\* The timestamp get_api_answer puts in params: current_timestamp or now.
from_date_of(ts, now) == IF Truthy(ts) THEN ts.v ELSE now

get_api_answer(ts, now, http) ==
    LET r == get_api_answer_try(from_date_of(ts, now), http)
    IN  IF r.raised # NoExc /\ IsSubclass(r.raised.kind, "Exception")
        THEN Raise(Exc("ConnectionError",
                       <<"No answer from the server/The answer is not JSON ">>,
                       r.raised.kind), NonDictBody)
        ELSE r

\* 'current_date' not in response and 'homeworks' not in response
keys_missing(r) ==
    "current_date" \notin r.keys /\ "homeworks" \notin r.keys

\* The variant that treats an empty list as a failure (NewStatusNotFoundError
\* of errors.py):
check_response_no_empty(r) ==
    IF r.t # "dict"
    THEN Raise(Exc("TypeError", <<"The server answer is not a dictionary.">>,
                   "None"), NoHomeworks)
    ELSE IF keys_missing(r)
    THEN Raise(Exc("ExpectedKeysNotFoundError",
                   <<"The answer does not hold the expected keys.">>, "None"),
               NoHomeworks)
    ELSE IF ResponseGet(r, "homeworks").t # "list"
    THEN Raise(Exc("TypeError", <<"homeworks is not a list.">>, "None"),
               NoHomeworks)
    ELSE IF ResponseGet(r, "homeworks").elems = <<>>
    THEN Raise(Exc("NewStatusNotFoundError", <<"No new statuses.">>, "None"),
               NoHomeworks)
    ELSE Return(ResponseGet(r, "homeworks"))

check_response(r) ==
    IF r.t # "dict"
    THEN Raise(Exc("TypeError", <<"The server answer is not a dictionary.">>,
                   "None"), NoHomeworks)
    ELSE IF keys_missing(r)
    THEN Raise(Exc("ExpectedKeysNotFoundError",
                   <<"The answer does not hold the expected keys.">>, "None"),
               NoHomeworks)
    ELSE IF ResponseGet(r, "homeworks").t # "list"
    THEN Raise(Exc("TypeError", <<"homeworks is not a list.">>, "None"),
               NoHomeworks)
    ELSE Return(ResponseGet(r, "homeworks"))

\* The variant that tests the status before the name:
parse_status_status_first(h) ==
    IF h.t # "dict"
    THEN Raise(Exc("AttributeError",
                   <<"'", h.t, "' object has no attribute 'get'">>, "None"), <<>>)
    ELSE IF ~(/\ HomeworkGet(h, "status").t = "str"
              /\ HomeworkGet(h, "status").s \in DOMAIN HOMEWORK_STATUSES)
    THEN Raise(Exc("UnexpectedStatusError",
                   <<"Undocumented status found.">>, "None"), <<>>)
    ELSE IF ~TruthyStr(HomeworkGet(h, "homework_name"))
    THEN Raise(Exc("KeyError", <<"'", "Work name not found.", "'">>, "None"), <<>>)
    ELSE Return(<<"Work review status changed \"",
                  HomeworkGet(h, "homework_name").s, "\". ",
                  HOMEWORK_STATUSES[HomeworkGet(h, "status").s]>>)

\* The variant that puts the status code where the verdict belongs:
parse_status_code_as_verdict(h) ==
    IF h.t # "dict"
    THEN Raise(Exc("AttributeError",
                   <<"'", h.t, "' object has no attribute 'get'">>, "None"), <<>>)
    ELSE IF ~TruthyStr(HomeworkGet(h, "homework_name"))
    THEN Raise(Exc("KeyError", <<"'", "Work name not found.", "'">>, "None"), <<>>)
    ELSE IF ~(/\ HomeworkGet(h, "status").t = "str"
              /\ HomeworkGet(h, "status").s \in DOMAIN HOMEWORK_STATUSES)
    THEN Raise(Exc("UnexpectedStatusError",
                   <<"Undocumented status found.">>, "None"), <<>>)
    ELSE Return(<<"Work review status changed \"",
                  HomeworkGet(h, "homework_name").s, "\". ",
                  HomeworkGet(h, "status").s>>)

\* str(KeyError(text)) is repr(text): the text in quotes.
parse_status(h) ==
    IF h.t # "dict"
    THEN Raise(Exc("AttributeError",
                   <<"'", h.t, "' object has no attribute 'get'">>, "None"), <<>>)
    ELSE IF ~TruthyStr(HomeworkGet(h, "homework_name"))
    THEN Raise(Exc("KeyError", <<"'", "Work name not found.", "'">>, "None"), <<>>)
    ELSE IF ~(/\ HomeworkGet(h, "status").t = "str"
              /\ HomeworkGet(h, "status").s \in DOMAIN HOMEWORK_STATUSES)
    THEN Raise(Exc("UnexpectedStatusError",
                   <<"Undocumented status found.">>, "None"), <<>>)
    ELSE Return(<<"Work review status changed \"",
                  HomeworkGet(h, "homework_name").s, "\". ",
                  HOMEWORK_STATUSES[HomeworkGet(h, "status").s]>>)

\* PRACTICUM_TOKEN or TELEGRAM_TOKEN or TELEGRAM_CHAT_ID
check_tokens_any(tk) ==
    \E k \in TokenNames : TruthyStr(tk[k])

\* PRACTICUM_TOKEN and TELEGRAM_TOKEN and TELEGRAM_CHAT_ID
check_tokens(tk) ==
    \A k \in TokenNames : TruthyStr(tk[k])

\* [key for key, value in token_dict.items() if not value]
missing_tokens(tk) == {k \in TokenNames : ~TruthyStr(tk[k])}

---------------------------------------------------------------------------
\* main(): its except clauses.

\* Which clause of the loop's try statement catches an exception of class
\* kind: "except IndexError", "except Exception", or none (it propagates).
\* The variant without the first clause:
ExceptClause_no_index(kind) ==
    IF IsSubclass(kind, "Exception") THEN "Exception" ELSE "propagate"

\* The variant whose second clause is "except BaseError":
ExceptClause_own_errors(kind) ==
    IF IsSubclass(kind, "IndexError") THEN "IndexError"
    ELSE IF IsSubclass(kind, "BaseError") THEN "Exception"
    ELSE "propagate"

ExceptClause(kind) ==
    IF IsSubclass(kind, "IndexError") THEN "IndexError"
    ELSE IF IsSubclass(kind, "Exception") THEN "Exception"
    ELSE "propagate"

\* Whether "except SendMessageError" catches an exception of class kind.
SendClause(kind) == IsSubclass(kind, "SendMessageError")

\* message = f"...: {exc}"
Diagnostic(e) == <<"Program failure: ">> \o e.msg

\* current_timestamp = response.get('current_date')
cursor_of(r) ==
    IF r.t # "dict"
    THEN Raise(Exc("AttributeError",
                   <<"'", r.t, "' object has no attribute 'get'">>, "None"),
               PyNone)
    ELSE Return(ResponseGet(r, "current_date"))

\* The variant that assigns the cursor only once check_response has passed:
assigned_timestamp_validated(old, r) ==
    IF check_response(r).raised = NoExc THEN cursor_of(r).value ELSE old

\* current_timestamp after line 160 has run on a mapping r; old is its value
\* before
assigned_timestamp(old, r) == cursor_of(r).value

\* The variant that takes the last element: homeworks[-1]
last_record(hw) == hw.elems[Len(hw.elems)]

\* homework = homeworks[0], of a list that is not empty
first_record(hw) == hw.elems[1]

\* The variant whose "except IndexError" clause continues without sleeping:
sleep_time_no_update(e) ==
    IF ExceptClause(e.kind) = "IndexError" THEN 0 ELSE RETRY_TIME

\* The argument of the time.sleep that ends an iteration in which main()
\* caught e: line 166 in the "except IndexError" clause, line 178 otherwise.
sleep_time(e) ==
    IF ExceptClause(e.kind) = "IndexError" THEN RETRY_TIME ELSE RETRY_TIME

\* The variant that always sends:
should_send_always(last, msg) == TRUE

\* if last_message != message
should_send(last, msg) == last # msg

\* The variant that remembers a message only once it was delivered:
remember_delivered(last, msg, sent) ==
    IF sent.raised = NoExc THEN msg ELSE last

\* last_message = message, whatever send_message then does
remember(last, msg, sent) == msg

---------------------------------------------------------------------------
\* What one loop iteration did, as seen from outside the process.

EmptyCycle ==
    [fetch |-> "none",       \* none, returned, non200, transport, nonjson
     from_date |-> -1,       \* the from_date parameter of the request
     at |-> -1,              \* the clock when the request was made
     ts_before |-> PyNone,   \* current_timestamp when the iteration began
     diag_before |-> <<>>,   \* last_diag when the iteration began
     cand |-> <<>>,          \* the message the iteration constructed
     envelope |-> "none",    \* the decoded body: none, dict, other
     cursor |-> PyNone,      \* its "current_date" (None when it has none)
     invoked |-> 0,          \* calls of send_message
     send_error |-> "None",  \* class of the exception send_message raised
     delivered |-> 0,        \* calls of send_message that returned
     path |-> <<>>]          \* the positions the iteration went through

FetchKind(http) ==
    IF http.err # "None" THEN "transport"
    ELSE IF http.status_code # 200 THEN "non200"
    ELSE IF ~http.parsable THEN "nonjson"
    ELSE "returned"

EnvelopeKind(http) ==
    IF FetchKind(http) # "returned" THEN "none"
    ELSE IF http.body.t = "dict" THEN "dict"
    ELSE "other"

\* What the next iteration's record keeps of an iteration.
Summary(c) ==
    [fetch |-> c.fetch, at |-> c.at, envelope |-> c.envelope,
     cursor |-> c.cursor, cand |-> c.cand, invoked |-> c.invoked]

---------------------------------------------------------------------------
\* The state machine.

Init ==
    /\ pc = "start"
    /\ tokens \in [TokenNames -> TokenValues]
    /\ clock \in StartTimes
    /\ cycle = 0
    /\ current_timestamp = PyNone
    /\ last_message = <<>>
    /\ response = NonDictBody
    /\ homeworks = NoHomeworks
    /\ message = <<>>
    /\ exc = NoExc
    /\ exit_status = -1
    /\ logged_missing = {}
    /\ last_delivered = <<>>
    /\ cyc = EmptyCycle
    /\ prev = Summary(EmptyCycle)
    /\ run_sends = -1
    /\ last_diag = <<>>
    /\ last_cand = <<>>

\* main() up to the loop: the check of the tokens, then the loop's variables.
\* sys.exit with a text ends the process with status 1.  The construction of
\* telegram.Bot is taken to succeed.
Startup ==
    /\ pc = "start"
    /\ IF ~check_tokens(tokens)
       THEN /\ logged_missing' = missing_tokens(tokens)
            /\ exit_status' = 1
            /\ pc' = "exited"
            /\ UNCHANGED <<current_timestamp, last_message>>
       ELSE /\ current_timestamp' = PyInt(clock)
            /\ last_message' = <<>>
            /\ pc' = "polling"
            /\ UNCHANGED <<exit_status, logged_missing>>
    /\ UNCHANGED <<tokens, clock, cycle, response, homeworks, message, exc,
                   last_delivered, cyc, prev, run_sends, last_diag,
                   last_cand>>

\* An exception e leaves the try block of the loop; c is the iteration's
\* record so far.
Handle(e, c) ==
    /\ exc' = e
    /\ IF ExceptClause(e.kind) = "IndexError"
       THEN /\ pc' = "sleeping"
            /\ message' = message
            /\ cyc' = [c EXCEPT !.path = Append(@, "sleeping")]
       ELSE IF ExceptClause(e.kind) = "Exception"
       THEN /\ pc' = "notifying"
            /\ message' = Diagnostic(e)
            /\ cyc' = [c EXCEPT !.cand = Diagnostic(e),
                                !.path = Append(@, "notifying")]
       ELSE /\ pc' = "crashed"
            /\ message' = message
            /\ cyc' = [c EXCEPT !.path = Append(@, "crashed")]

\* response = get_api_answer(current_timestamp)
\* current_timestamp = response.get('current_date')
Poll ==
    /\ pc = "polling"
    /\ \E http \in HttpOutcomes :
        LET r == get_api_answer(current_timestamp, clock, http)
            c == [cyc EXCEPT !.fetch = FetchKind(http),
                             !.from_date = from_date_of(current_timestamp, clock),
                             !.at = clock,
                             !.ts_before = current_timestamp,
                             !.diag_before = last_diag,
                             !.envelope = EnvelopeKind(http),
                             !.cursor = IF EnvelopeKind(http) = "dict"
                                        THEN ResponseGet(http.body, "current_date")
                                        ELSE PyNone,
                             !.path = <<"polling">>]
        IN  /\ run_sends' = IF FetchKind(http) # "non200" THEN -1
                            ELSE IF prev.fetch = "non200" THEN run_sends
                            ELSE 0
            /\ IF r.raised # NoExc
               THEN /\ Handle(r.raised, c)
                    /\ UNCHANGED <<response, current_timestamp>>
               ELSE /\ response' = r.value
                    /\ IF cursor_of(r.value).raised # NoExc
                       THEN /\ Handle(cursor_of(r.value).raised, c)
                            /\ UNCHANGED current_timestamp
                       ELSE /\ current_timestamp' =
                                   assigned_timestamp(current_timestamp, r.value)
                            /\ pc' = "validating"
                            /\ cyc' = [c EXCEPT !.path = Append(@, "validating")]
                            /\ UNCHANGED <<exc, message>>
    /\ UNCHANGED <<tokens, clock, cycle, last_message, homeworks, exit_status,
                   logged_missing, last_delivered, prev, last_diag, last_cand>>

\* homeworks = check_response(response)
Validate ==
    /\ pc = "validating"
    /\ LET r == check_response(response)
       IN  IF r.raised # NoExc
           THEN /\ Handle(r.raised, cyc)
                /\ UNCHANGED homeworks
           ELSE /\ homeworks' = r.value
                /\ pc' = "extracting"
                /\ cyc' = [cyc EXCEPT !.path = Append(@, "extracting")]
                /\ UNCHANGED <<exc, message>>
    /\ UNCHANGED <<tokens, clock, cycle, current_timestamp, last_message,
                   response, exit_status, logged_missing, last_delivered,
                   prev, run_sends, last_diag, last_cand>>

\* homework = homeworks[0]
\* message = parse_status(homework)
Extract ==
    /\ pc = "extracting"
    /\ IF Len(homeworks.elems) = 0
       THEN Handle(Exc("IndexError", <<"list index out of range">>, "None"), cyc)
       ELSE LET r == parse_status(first_record(homeworks))
            IN  IF r.raised # NoExc
                THEN Handle(r.raised, cyc)
                ELSE /\ message' = r.value
                     /\ pc' = "notifying"
                     /\ cyc' = [cyc EXCEPT !.cand = r.value,
                                           !.path = Append(@, "notifying")]
                     /\ UNCHANGED exc
    /\ UNCHANGED <<tokens, clock, cycle, current_timestamp, last_message,
                   response, homeworks, exit_status, logged_missing,
                   last_delivered, prev, run_sends, last_diag, last_cand>>

\* if last_message != message: last_message = message; send_message(...)
Notify ==
    /\ pc = "notifying"
    /\ IF should_send(last_message, message)
       THEN \E outcome \in BotOutcomes :
            LET sent == send_message(message, outcome)
                c == [cyc EXCEPT !.invoked = @ + 1,
                                 !.delivered = IF sent.raised = NoExc
                                               THEN @ + 1 ELSE @,
                                 !.send_error = sent.raised.kind]
            IN  /\ last_message' = remember(last_message, message, sent)
                /\ last_delivered' = IF sent.raised = NoExc THEN message
                                     ELSE last_delivered
                /\ run_sends' = IF run_sends >= 0 THEN run_sends + 1
                                ELSE run_sends
                /\ last_diag' = IF exc # NoExc THEN message ELSE last_diag
                /\ IF sent.raised = NoExc \/ SendClause(sent.raised.kind)
                   THEN /\ pc' = "sleeping"
                        /\ cyc' = [c EXCEPT !.path = Append(@, "sleeping")]
                   ELSE /\ pc' = "crashed"
                        /\ cyc' = [c EXCEPT !.path = Append(@, "crashed")]
       ELSE /\ pc' = "sleeping"
            /\ cyc' = [cyc EXCEPT !.path = Append(@, "sleeping")]
            /\ UNCHANGED <<last_message, last_delivered, run_sends, last_diag>>
    /\ UNCHANGED <<tokens, clock, cycle, current_timestamp, response,
                   homeworks, message, exc, exit_status, logged_missing, prev,
                   last_cand>>

\* time.sleep(RETRY_TIME), then the next iteration.  The iteration's locals
\* are dead from here on (each path assigns them before it reads them) and
\* are cleared.
Sleep ==
    /\ pc = "sleeping"
    /\ cycle < MaxCycles
    /\ clock' = clock + sleep_time(exc)
    /\ cycle' = cycle + 1
    /\ pc' = "polling"
    /\ prev' = Summary(cyc)
    /\ cyc' = EmptyCycle
    /\ response' = NonDictBody
    /\ homeworks' = NoHomeworks
    /\ message' = <<>>
    /\ exc' = NoExc
    /\ last_cand' = IF cyc.cand # <<>> THEN cyc.cand ELSE last_cand
    /\ UNCHANGED <<tokens, current_timestamp, last_message, exit_status,
                   logged_missing, last_delivered, run_sends, last_diag>>

Next == Startup \/ Poll \/ Validate \/ Extract \/ Notify \/ Sleep

Spec == Init /\ [][Next]_vars

---------------------------------------------------------------------------
\* check_response on its own: one call on any decoded body, also on the
\* bodies that main() never hands to it.

CheckInit ==
    /\ pc = "call"
    /\ tokens = [k \in TokenNames |-> PyStr("tok")]
    /\ clock \in StartTimes
    /\ cycle = 0
    /\ current_timestamp = PyNone
    /\ last_message = <<>>
    /\ response \in Bodies
    /\ homeworks = NoHomeworks
    /\ message = <<>>
    /\ exc = NoExc
    /\ exit_status = -1
    /\ logged_missing = {}
    /\ last_delivered = <<>>
    /\ cyc = EmptyCycle
    /\ prev = Summary(EmptyCycle)
    /\ run_sends = -1
    /\ last_diag = <<>>
    /\ last_cand = <<>>

\* homeworks = check_response(response), or the exception that leaves it
CheckResponseCall ==
    /\ pc = "call"
    /\ exc' = check_response(response).raised
    /\ homeworks' = check_response(response).value
    /\ pc' = "returned"
    /\ UNCHANGED <<tokens, clock, cycle, current_timestamp, last_message,
                   response, message, exit_status, logged_missing,
                   last_delivered, cyc, prev, run_sends, last_diag, last_cand>>

CheckNext == CheckResponseCall

CheckSpec == CheckInit /\ [][CheckNext]_vars

---------------------------------------------------------------------------
\* Properties.

LoopStates == {"polling", "validating", "extracting", "notifying", "sleeping"}
BothKeys == {"homeworks", "current_date"}

\* C1: when two consecutive iterations construct the same message (status
\* message or diagnostic), send_message is called at most once over the two,
\* also when the first call failed to deliver.
C1_DedupConsecutive ==
    (prev.cand # <<>> /\ cyc.cand = prev.cand)
        => prev.invoked + cyc.invoked <= 1

\* The second of two iterations with the same message has ended, and the
\* first one's call of send_message had failed.
C1_Witness ==
    /\ pc = "sleeping"
    /\ cyc.cand # <<>>
    /\ cyc.cand = prev.cand
    /\ prev.invoked = 1
    /\ cyc.invoked = 0
    /\ last_delivered # prev.cand

\* C2: last_message is always the text of the most recent message that was
\* delivered (empty when none was), so a failed delivery leaves it as it was.
C2_LastMessageIsLastDelivered == last_message = last_delivered

\* C3: once in the loop, main() stays in it: an exception raised while
\* fetching, validating or extracting leads to the notification or the sleep
\* step, the notification step leads to the sleep step, and the sleep step
\* leads to the next poll.
C3_LoopNeverTerminates ==
    [][/\ pc \in LoopStates => pc' \in LoopStates
       /\ (exc = NoExc /\ exc' # NoExc) => pc' \in {"notifying", "sleeping"}
       /\ pc = "notifying" => pc' = "sleeping"
       /\ pc = "sleeping" => pc' = "polling"]_vars

\* An iteration whose extraction failed has reached the sleep step, after an
\* iteration whose fetch failed.
C3_Witness ==
    /\ pc = "sleeping"
    /\ exc.kind = "UnexpectedStatusError"
    /\ prev.fetch = "transport"
    /\ cycle = 1

\* C4: whatever bot.send_message raises leaves send_message as a
\* SendMessageError, and an iteration whose send_message failed, for a status
\* message or for a diagnostic, is at the sleep step.
C4_NotifierFailureSwallowed ==
    /\ \A o \in BotOutcomes \ {"None"} :
          send_message(message, o).raised.kind = "SendMessageError"
    /\ cyc.invoked > cyc.delivered
          => cyc.send_error = "SendMessageError" /\ pc = "sleeping"

\* The delivery of a diagnostic failed and the iteration is at the sleep step.
C4_Witness ==
    /\ pc = "sleeping"
    /\ cyc.send_error = "SendMessageError"
    /\ exc.kind = "ConnectionError"
    /\ cyc.invoked = 1
    /\ cyc.delivered = 0

\* C5: the request that follows a poll that returned an envelope carries the
\* envelope's cursor as from_date when it has one, and else the clock of
\* that poll; and a request made with a zero or absent timestamp carries the
\* clock of the request.
C5_NextQueryLowerBound ==
    /\ (cyc.fetch # "none" /\ prev.envelope = "dict")
          => cyc.from_date = (IF prev.cursor.t = "int" THEN prev.cursor.v
                              ELSE prev.at)
    /\ (cyc.fetch # "none" /\ ~Truthy(cyc.ts_before))
          => cyc.from_date = cyc.at

\* C6: an iteration whose fetch got a non-200 status ends at the sleep step
\* with a transport error caught, current_timestamp as it was before the
\* iteration, and exactly one call of send_message over the run of
\* consecutive such iterations it belongs to.
C6_Non200Scenario ==
    cyc.fetch = "non200"
        => /\ pc \in {"notifying", "sleeping"}
           /\ exc.kind \in {"ConnectionError", "UnexpectedStatusCodeError"}
           /\ current_timestamp = cyc.ts_before
           /\ pc = "sleeping" => run_sends = 1

\* C7: a non-200 status leaves get_api_answer as UnexpectedStatusCodeError
\* with the status code and the request parameters in its text; an error of
\* requests.get or a body that is not JSON leaves it as ConnectionError.
C7_FetchFailureKinds ==
    /\ cyc.fetch = "non200"
          => /\ exc.kind = "UnexpectedStatusCodeError"
             /\ \E i \in 1..Len(exc.msg) : exc.msg[i] = IntToStr(cyc.from_date)
             /\ \E i \in 1..Len(exc.msg) : exc.msg[i] \in {"404", "500"}
    /\ cyc.fetch \in {"transport", "nonjson"} => exc.kind = "ConnectionError"

\* C8: for a mapping without both of "homeworks" and "current_date",
\* check_response raises ExpectedKeysNotFoundError.
C8_MissingAnyKeyRejected ==
    (/\ response.t = "dict"
     /\ response.keys # BothKeys
     /\ pc \in {"extracting", "notifying", "sleeping"})
        => exc.kind = "ExpectedKeysNotFoundError"

\* C9: an iteration whose envelope has an empty homework list and a cursor
\* goes from extraction straight to the sleep step, with no message
\* constructed, no call of send_message, and current_timestamp the cursor.
C9_NoUpdateCycle ==
    (/\ response.t = "dict"
     /\ response.keys = BothKeys
     /\ response.homeworks = HwList(<<>>))
        => /\ pc \in {"validating", "extracting", "sleeping"}
           /\ current_timestamp = response.current_date
           /\ cyc.cand = <<>>
           /\ message = <<>>
           /\ cyc.invoked = 0
           /\ pc = "sleeping"
                 => cyc.path = <<"polling", "validating", "extracting", "sleeping">>

\* The iteration of the envelope {"homeworks": [], "current_date": 1000} is
\* at the sleep step.
C9_Witness ==
    /\ pc = "sleeping"
    /\ response = Envelope(BothKeys, HwList(<<>>), PyInt(1000))
    /\ current_timestamp = PyInt(1000)
    /\ last_message = <<>>

\* C10: with a credential unset or empty, main() never polls and never
\* notifies, and once it has exited its status is not zero and the logged
\* names are exactly the unset or empty credentials.
C10_MissingCredentialsExit ==
    (\E k \in TokenNames : tokens[k].t = "NoneType" \/ tokens[k].s = "")
        => /\ pc \in {"start", "exited"}
           /\ cyc.fetch = "none"
           /\ cyc.invoked = 0
           /\ last_delivered = <<>>
           /\ pc = "exited"
                 => /\ exit_status > 0
                    /\ logged_missing =
                         {k \in TokenNames :
                            tokens[k].t = "NoneType" \/ tokens[k].s = ""}

\* main() has exited with only TELEGRAM_CHAT_ID unset.
C10_Witness ==
    /\ pc = "exited"
    /\ tokens["TELEGRAM_CHAT_ID"] = PyNoneStr
    /\ tokens["PRACTICUM_TOKEN"] = PyStr("tok")
    /\ tokens["TELEGRAM_TOKEN"] = PyStr("tok")
    /\ logged_missing = {"TELEGRAM_CHAT_ID"}
    /\ exit_status = 1

\* The iteration has extracted from a list whose first record is a mapping.
Extracted ==
    /\ pc \in {"notifying", "sleeping"}
    /\ homeworks.t = "list"
    /\ Len(homeworks.elems) > 0
    /\ homeworks.elems[1].t = "dict"

NameMissing(h) == "homework_name" \notin h.keys \/ h.homework_name = ""
StatusUnknown(h) ==
    "status" \notin h.keys \/ h.status \notin {"approved", "reviewing", "rejected"}

\* The text pieces of a message.
Pieces(m) == {m[i] : i \in 1..Len(m)}
StatusPrefix == "Work review status changed \""
DiagnosticPrefix == "Program failure: "

C12_ExtractorFailureKinds ==
    Extracted
        => /\ NameMissing(homeworks.elems[1]) => exc.kind = "KeyError"
           /\ (~NameMissing(homeworks.elems[1])
               /\ StatusUnknown(homeworks.elems[1]))
                 => exc.kind = "UnexpectedStatusError"

\* A record without a name and with the status "in_review" was rejected.
C12_Witness ==
    /\ Extracted
    /\ homeworks.elems[1] = HomeworkRecord({"status"}, "", "in_review")
    /\ exc.kind = "KeyError"
    /\ pc = "notifying"

\* C13: for a record with a non-empty name and a status of the catalog,
\* parse_status returns a message that holds the name and the catalog's
\* verdict for that status, and no other verdict of the catalog.
C13_StatusMessage ==
    (/\ Extracted
     /\ ~NameMissing(homeworks.elems[1])
     /\ ~StatusUnknown(homeworks.elems[1]))
        => /\ exc = NoExc
           /\ homeworks.elems[1].homework_name \in Pieces(cyc.cand)
           /\ HOMEWORK_STATUSES[homeworks.elems[1].status] \in Pieces(cyc.cand)
           /\ Cardinality({s \in DOMAIN HOMEWORK_STATUSES :
                             HOMEWORK_STATUSES[s] \in Pieces(cyc.cand)}) = 1

\* The message of the record "hw1", "approved" was constructed and delivered.
C13_Witness ==
    /\ Extracted
    /\ pc = "sleeping"
    /\ homeworks.elems[1] =
          HomeworkRecord({"homework_name", "status"}, "hw1", "approved")
    /\ cyc.cand = <<StatusPrefix, "hw1", "\". ",
                    "Work checked: the reviewer liked everything. Hooray!">>
    /\ cyc.delivered = 1

\* C14: check_response raises TypeError for a body that is no mapping and
\* for a mapping whose "homeworks" is no list; for a mapping with both keys
\* whose "homeworks" is a list it returns that list, also when it is empty.
C14_ValidatorResult ==
    pc = "returned"
        => /\ response.t # "dict" => exc.kind = "TypeError"
           /\ (/\ response.t = "dict"
               /\ "homeworks" \in response.keys
               /\ response.homeworks.t # "list")
                 => exc.kind = "TypeError"
           /\ (/\ response.t = "dict"
               /\ response.keys = BothKeys
               /\ response.homeworks.t = "list")
                 => exc = NoExc /\ homeworks = response.homeworks

\* check_response has returned the empty list of
\* {"homeworks": [], "current_date": 1000}.
C14_Witness ==
    /\ pc = "returned"
    /\ response = Envelope(BothKeys, HwList(<<>>), PyInt(1000))
    /\ exc = NoExc
    /\ homeworks = HwList(<<>>)

IsPrefix(p, q) == Len(p) <= Len(q) /\ SubSeq(q, 1, Len(p)) = p

\* The ways through one iteration.
IterationPaths ==
    {<<"polling", "validating", "extracting", "notifying", "sleeping">>,
     <<"polling", "validating", "extracting", "sleeping">>,
     <<"polling", "validating", "notifying", "sleeping">>,
     <<"polling", "notifying", "sleeping">>}

\* C15: an iteration goes through the fetch, then possibly the
\* notification, then one sleep, and nothing after it; main() is where the
\* iteration's path ends; send_message is called only in an iteration that
\* fetched, at its notification step; and two consecutive fetches are 600
\* seconds, one sleep of RETRY_TIME, apart.
C15_OneSleepPerCycle ==
    /\ \E q \in IterationPaths : IsPrefix(cyc.path, q)
    /\ cyc.path # <<>> => pc = cyc.path[Len(cyc.path)]
    /\ cyc.invoked > 0
          => /\ cyc.fetch # "none"
             /\ cyc.path[Len(cyc.path) - 1] = "notifying"
    /\ (cyc.fetch # "none" /\ prev.fetch # "none")
          => cyc.at - prev.at = 600

\* An iteration that sent a message is at the sleep step, one sleep after
\* an iteration that found no update.
C15_Witness ==
    /\ pc = "sleeping"
    /\ cycle = 1
    /\ cyc.invoked = 1
    /\ prev.envelope = "dict"
    /\ prev.cand = <<>>
    /\ cyc.at = prev.at + 600

\* C16: once the fetch has returned a mapping, current_timestamp is the
\* mapping's cursor for the rest of the iteration, whatever validation and
\* extraction then do; after a fetch that failed or returned no mapping it
\* is what it was before the iteration.
C16_TimestampAssignedBeforeValidation ==
    /\ cyc.envelope = "dict" => current_timestamp = cyc.cursor
    /\ (cyc.fetch # "none" /\ cyc.envelope # "dict")
          => current_timestamp = cyc.ts_before

\* An iteration whose validation failed has moved current_timestamp from
\* 1500 to the cursor 1000.
C16_Witness ==
    /\ pc = "sleeping"
    /\ exc.kind = "TypeError"
    /\ cyc.envelope = "dict"
    /\ cyc.ts_before = PyInt(1500)
    /\ current_timestamp = PyInt(1000)

\* C17: an iteration that finds no update leaves last_message as it was, and
\* an iteration whose message is that of the last earlier iteration that
\* constructed one does not call send_message, however many iterations
\* without update lie between the two.
C17_DedupSpansNoUpdate ==
    /\ (pc = "sleeping" /\ cyc.cand = <<>>) => last_message = last_cand
    /\ (cyc.cand # <<>> /\ cyc.cand = last_cand) => cyc.invoked = 0

\* Status message, no update, the same status message: the third iteration
\* has not sent it.
C17_Witness ==
    /\ pc = "sleeping"
    /\ cycle = 2
    /\ prev.envelope = "dict"
    /\ prev.cand = <<>>
    /\ exc = NoExc
    /\ cyc.cand # <<>>
    /\ cyc.cand = last_cand
    /\ cyc.invoked = 0

\* C18: an iteration calls send_message at most once; the status message of
\* an iteration is that of the first record of the list; and when the first
\* record is rejected the iteration's message is a diagnostic, whatever
\* records follow.
C18_FirstRecordOnly ==
    /\ cyc.invoked <= 1
    /\ (Extracted /\ exc = NoExc)
          => /\ cyc.cand[1] = StatusPrefix
             /\ cyc.cand[2] = homeworks.elems[1].homework_name
             /\ homeworks.elems[1].status \in DOMAIN HOMEWORK_STATUSES
             /\ cyc.cand[4] = HOMEWORK_STATUSES[homeworks.elems[1].status]
    /\ (Extracted /\ exc # NoExc) => cyc.cand[1] = DiagnosticPrefix

\* The message of a list of two valid records was sent, and it is that of
\* the first one.
C18_Witness ==
    /\ Extracted
    /\ pc = "sleeping"
    /\ Len(homeworks.elems) = 2
    /\ homeworks.elems[1].homework_name = "hw1"
    /\ homeworks.elems[2].homework_name = "hw2"
    /\ "hw1" \in Pieces(cyc.cand)
    /\ "hw2" \notin Pieces(cyc.cand)
    /\ cyc.invoked = 1

====
